---- MODULE Spec2Model ----
(***************************************************************************)
(* A model of the MCP pgvector server (src/src/index.js): module start-up  *)
(* (configuration, embedding-provider resolution), the lazy database       *)
(* connection, the tool listing, and the tool-call handler with the engine *)
(* operations it awaits.  Every await of the source is a step boundary, so  *)
(* that calls in flight interleave the way the event loop interleaves them.*)
(*                                                                         *)
(* Numbers with a fractional part (similarity, threshold) are kept in      *)
(* tenths: 0.5 is 5, 1 is 10.                                              *)
(***************************************************************************)
EXTENDS Integers, Sequences, FiniteSets, TLC

\* ------------------------------------------------------------------ bounds

\* Tool calls that may be in flight at the same time.
NumProcs == 2

\* Connections the pool hands out before connect() waits (pg's default is 10).
PoolMax == 2

\* Rows of the table a search runs against.
MaxRows == 2

\* Entries of a metadata filter map.
MaxFilters == 2

\* ---------------------------------------------------------------- constants

\* args.limit || 5
DefaultLimit == 5

\* args.similarity_threshold || 0.5, in tenths
DefaultThreshold == 5

\* args.limit || 10
MetaDefaultLimit == 10

\* inputSchema of vector_search: limit maximum
VectorLimitMax == 50

\* inputSchema of metadata_search: limit maximum
MetaLimitMax == 100

VARIABLES
  env,                 \* process.env and process.argv, as read into CONFIG
  phase,               \* "load" | "main" | "serving" | "exited"
  embeddingProvider,   \* let embeddingProvider
  hfClient,            \* let hfClient: "null" | "client"
  pool,                \* let pool: "null" | "pool"
  dbConnectionStatus,  \* let dbConnectionStatus
  initAttempts,        \* how often initializeDatabase created a pool and probed it
  borrowed,            \* clients of the current pool that are checked out
  leaked,              \* clients of a dropped pool that were never released
  dbUp,                \* whether PostgreSQL answers right now
  listing,             \* the tool names of the last tools/list answer
  calls                \* the tool calls in flight, one record per request slot

vars == <<env, phase, embeddingProvider, hfClient, pool, dbConnectionStatus,
          initAttempts, borrowed, leaked, dbUp, listing, calls>>

connVars == <<pool, dbConnectionStatus, initAttempts, leaked>>

Procs == 1..NumProcs

\* ------------------------------------------------------------ configuration

\* An environment variable is undefined, the empty string, or a value.
Undefined == "undefined"

\* JavaScript truthiness of a string-or-undefined value.
Truthy(v) == v # Undefined /\ v # ""

\* a || b
OrElse(a, b) == IF Truthy(a) THEN a ELSE b

\* CONFIG.embeddings.provider
ConfigProvider == OrElse(env.EMBEDDING_PROVIDER, "auto")

\* CONFIG.db.connectionString
ConnectionString == env.DATABASE_URL

\* const isHealthCheck
IsHealthCheck == env.argvHealth \/ env.HEALTH_CHECK = "true"

\* Variant: the Hugging Face key is looked at before the Azure credentials.
ResolveProvider_HfFirst ==
  IF ConfigProvider = "auto"
  THEN IF Truthy(env.HUGGINGFACE_API_KEY) THEN "huggingface"
       ELSE IF Truthy(env.AZURE_OPENAI_API_KEY) /\ Truthy(env.AZURE_OPENAI_ENDPOINT)
            THEN "azure"
            ELSE "none"
  ELSE ConfigProvider

\* Determine embedding provider based on available keys.
ResolveProvider ==
  IF ConfigProvider = "auto"
  THEN IF Truthy(env.AZURE_OPENAI_API_KEY) /\ Truthy(env.AZURE_OPENAI_ENDPOINT)
       THEN "azure"
       ELSE IF Truthy(env.HUGGINGFACE_API_KEY) THEN "huggingface"
            ELSE "none"
  ELSE ConfigProvider

\* The values an environment variable is drawn from.
EnvValues == {Undefined, "", "set"}

ProviderValues == {Undefined, "", "auto", "azure", "huggingface", "none", "openai"}

\* Every configuration the process can be started with.
AllEnvs ==
  [ EMBEDDING_PROVIDER   : ProviderValues,
    AZURE_OPENAI_API_KEY : EnvValues,
    AZURE_OPENAI_ENDPOINT: EnvValues,
    HUGGINGFACE_API_KEY  : EnvValues,
    DATABASE_URL         : EnvValues,
    HEALTH_CHECK         : {Undefined, "true", "1"},
    argvHealth           : BOOLEAN ]

\* The configurations the tool-serving specifications start from: a variable is
\* set or not, and the health-check mode comes from the command line.
ServingEnvs ==
  { e \in AllEnvs :
      /\ e.EMBEDDING_PROVIDER \in {Undefined, "azure", "none", "openai"}
      /\ e.AZURE_OPENAI_API_KEY = e.AZURE_OPENAI_ENDPOINT
      /\ e.AZURE_OPENAI_API_KEY # ""
      /\ e.HUGGINGFACE_API_KEY # ""
      /\ e.DATABASE_URL # ""
      /\ e.HEALTH_CHECK = Undefined }

\* ------------------------------------------------------------------ start-up

\* Validate required environment variables (skip for health check).
MissingDatabaseUrl == ~Truthy(ConnectionString) /\ ~IsHealthCheck

\* Initialize Hugging Face client if needed: the key is required.
MissingHuggingFaceKey(provider) ==
  provider = "huggingface" /\ ~Truthy(env.HUGGINGFACE_API_KEY)

\* The module's top-level code up to the server's construction: it runs to its
\* end, or to process.exit(1), without awaiting anything.
LoadModule ==
  /\ phase = "load"
  /\ IF MissingDatabaseUrl
     THEN /\ phase' = "exited"
          /\ UNCHANGED <<embeddingProvider, hfClient>>
     ELSE /\ embeddingProvider' = ResolveProvider
          /\ IF MissingHuggingFaceKey(embeddingProvider')
             THEN /\ phase' = "exited"
                  /\ UNCHANGED hfClient
             ELSE /\ phase' = "main"
                  /\ hfClient' = IF embeddingProvider' = "huggingface"
                                 THEN "client" ELSE "null"
  /\ UNCHANGED <<env, connVars, borrowed, dbUp, listing, calls>>

\* How the probe of a fresh pool (connect, SELECT 1, release) can end.
ProbeOutcomes == IF dbUp THEN {"ok"} ELSE {"connect_failed", "query_failed"}

\* Pools the model lets the process create (a counter's cap).
MaxAttempts == 3

\* Variant: the catch block drops the pool but leaves the status alone.
InitializeDatabase_ForgetsFailure ==
  IF IsHealthCheck
  THEN /\ dbConnectionStatus' = "skipped_health_check"
       /\ UNCHANGED <<pool, initAttempts, leaked>>
  ELSE IF ~Truthy(ConnectionString)
  THEN /\ dbConnectionStatus' = "no_url"
       /\ UNCHANGED <<pool, initAttempts, leaked>>
  ELSE /\ initAttempts < MaxAttempts
       /\ initAttempts' = initAttempts + 1
       /\ \E o \in ProbeOutcomes :
            IF o = "ok"
            THEN /\ pool' = "pool"
                 /\ dbConnectionStatus' = "connected"
                 /\ UNCHANGED leaked
            ELSE /\ pool' = "null"
                 /\ UNCHANGED dbConnectionStatus
                 /\ leaked' = IF o = "query_failed" THEN leaked + 1 ELSE leaked

\* async function initializeDatabase(): the new values of pool,
\* dbConnectionStatus, initAttempts and leaked.  A probe whose SELECT 1 fails
\* skips client.release(): the client stays checked out of the dropped pool.
InitializeDatabase ==
  IF IsHealthCheck
  THEN /\ dbConnectionStatus' = "skipped_health_check"
       /\ UNCHANGED <<pool, initAttempts, leaked>>
  ELSE IF ~Truthy(ConnectionString)
  THEN /\ dbConnectionStatus' = "no_url"
       /\ UNCHANGED <<pool, initAttempts, leaked>>
  ELSE /\ initAttempts < MaxAttempts
       /\ initAttempts' = initAttempts + 1
       /\ \E o \in ProbeOutcomes :
            IF o = "ok"
            THEN /\ pool' = "pool"
                 /\ dbConnectionStatus' = "connected"
                 /\ UNCHANGED leaked
            ELSE /\ pool' = "null"
                 /\ dbConnectionStatus' = "failed"
                 /\ leaked' = IF o = "query_failed" THEN leaked + 1 ELSE leaked

\* async function main(): initialize the database, then connect the transport;
\* no request is read before that.
Main ==
  /\ phase = "main"
  /\ InitializeDatabase
  /\ phase' = "serving"
  /\ UNCHANGED <<env, embeddingProvider, hfClient, borrowed, dbUp, listing, calls>>

\* Variant: a failed attempt is made again by the next dependent operation.
EnsurePoolConnection_Retry ==
  IF dbConnectionStatus \in {"not_attempted", "failed"}
  THEN InitializeDatabase
  ELSE UNCHANGED connVars

\* Variant: the connection is attempted whenever there is no pool.
EnsurePoolConnection_WhenNoPool ==
  IF pool = "null"
  THEN InitializeDatabase
  ELSE UNCHANGED connVars

\* async function ensurePoolConnection(), up to its throw: the connection is
\* attempted only while the status is not_attempted.  The caller throws
\* "Database connection not available" when pool' is null.
EnsurePoolConnection ==
  IF dbConnectionStatus = "not_attempted"
  THEN InitializeDatabase
  ELSE UNCHANGED connVars

\* Variant: the throw looks at the status failed instead of the pool.
PoolMissing_FailedOnly == dbConnectionStatus' = "failed"

\* if (!pool) throw new Error('Database connection not available. ...'),
\* evaluated after the attempt, if one was made.
PoolMissing == pool' = "null"

\* ------------------------------------------------------------- tool surface

EmbeddingTools == {"vector_search", "insert_document"}

\* The tools that go through ensurePoolConnection.
DatabaseTools == {"vector_search", "metadata_search", "insert_document",
                  "get_database_stats", "get_table_schemas"}

\* The names a request can carry: the six tools and one the server does not know.
ToolNames == DatabaseTools \cup {"status_check", "no_such_tool"}

\* ListToolsRequestSchema handler: the names of the tools it returns.
ListTools ==
  (IF embeddingProvider # "none" THEN EmbeddingTools ELSE {})
    \cup {"metadata_search", "get_database_stats", "get_table_schemas", "status_check"}

\* case "status_check": the status object the report is rendered from.
StatusReport ==
  [ embeddingProvider |-> embeddingProvider,
    status            |-> dbConnectionStatus,
    hasConnection     |-> dbConnectionStatus = "connected",
    availableTools    |->
      IF dbConnectionStatus = "connected"
      THEN IF embeddingProvider # "none"
           THEN {"vector_search", "metadata_search", "get_database_stats",
                 "get_table_schemas", "insert_document"}
           ELSE {"metadata_search", "get_database_stats", "get_table_schemas"}
      ELSE {"status_check"},
    limitations       |->
      IF dbConnectionStatus = "connected"
      THEN IF embeddingProvider # "none" THEN {} ELSE {"vector_search_disabled"}
      ELSE {"database_tools_disabled"} \cup
           (IF dbConnectionStatus = "no_url" THEN {"set_database_url"}
            ELSE IF dbConnectionStatus = "failed" THEN {"connection_failed"}
            ELSE IF dbConnectionStatus = "skipped_health_check"
                 THEN {"health_check_mode"}
                 ELSE {}) ]

NoReport ==
  [ embeddingProvider |-> "-", status |-> "-", hasConnection |-> FALSE,
    availableTools |-> {}, limitations |-> {} ]

\* ------------------------------------------------------- arguments, answers

\* An optional numeric argument of the argument bag.
Absent == [has |-> FALSE, val |-> 0]

Given(n) == [has |-> TRUE, val |-> n]

\* args.x || d : the default replaces a missing argument and a zero alike.
OrDefault(opt, d) == IF opt.has /\ opt.val # 0 THEN opt.val ELSE d

NoBound == [has |-> FALSE, limit |-> 0, threshold |-> 0]

NoResp ==
  [kind |-> "none", class |-> "-", code |-> "-", cause |-> "-",
   rows |-> <<>>, report |-> NoReport]

\* What a handler returns: { content: [...] } rendered from rows or a report.
Result(rows, report) ==
  [kind |-> "result", class |-> "-", code |-> "-", cause |-> "-",
   rows |-> rows, report |-> report]

\* A thrown value: its class, its protocol code if it is an McpError, and the
\* message it carries (named by what caused it).
Err(class, code, cause) == [class |-> class, code |-> code, cause |-> cause]

\* Variant: the catch block throws the error on as it came.
CatchHandler_Rethrow(error) == error

\* catch (error) { throw new McpError(ErrorCode.InternalError,
\*                   `Tool execution failed: ${error.message}`) }
CatchHandler(error) ==
  Err("McpError", "InternalError", error.cause)

\* The error answer the caller of the handler receives.
Failure(error) ==
  LET e == CatchHandler(error)
  IN [kind |-> "error", class |-> e.class, code |-> e.code, cause |-> e.cause,
      rows |-> <<>>, report |-> NoReport]

\* No statistics computed (yet).
NoStats == [computed |-> FALSE, tables |-> {}, totalDocuments |-> 0]

\* No table described (yet).
NoSchema ==
  [described |-> FALSE, embeddingColumns |-> {}, rowCount |-> 0,
   vectorDimensions |-> <<>>]

\* No statement built (yet).
NoStatement == [built |-> FALSE, text |-> <<>>, params |-> <<>>]

IdleCall ==
  [pc |-> "idle", tool |-> "-", hasArgs |-> FALSE, limit |-> Absent,
   threshold |-> Absent, filters |-> <<>>, held |-> 0, bound |-> NoBound,
   stmt |-> NoStatement, catalog |-> {}, column |-> "-",
   schema |-> NoSchema, database |-> <<>>, stats |-> NoStats, resp |-> NoResp]

\* The synchronous head of the CallToolRequestSchema handler: where the switch
\* leads before the first await.
SyncOutcome(name, hasArgs) ==
  IF name \in EmbeddingTools
  THEN IF embeddingProvider = "none" THEN "provider_disabled"
       ELSE IF ~hasArgs THEN "type_error"
       ELSE "engine"
  ELSE IF name = "metadata_search"
  THEN IF ~hasArgs THEN "type_error" ELSE "engine"
  ELSE IF name \in {"get_database_stats", "get_table_schemas"} THEN "engine"
  ELSE IF name = "status_check" THEN "status"
  ELSE "unknown_tool"

\* What the synchronous head throws.
SyncError(outcome) ==
  IF outcome = "provider_disabled"
  THEN Err("McpError", "MethodNotFound", "provider_disabled")
  ELSE IF outcome = "unknown_tool"
  THEN Err("McpError", "MethodNotFound", "unknown_tool")
  ELSE Err("TypeError", "-", "type_error")

\* Variant: release only at the end of the try block, with no finally.
Finish_NoFinally(p, c, resp) ==
  /\ calls' = [calls EXCEPT ![p] =
                 [c EXCEPT !.pc = "done", !.resp = resp,
                           !.held = IF resp.kind = "error" THEN c.held ELSE 0]]
  /\ borrowed' = IF resp.kind = "error" THEN borrowed ELSE borrowed - c.held

\* The handler's exit with call record c: every finally block on the way out
\* releases its client, then the answer leaves the handler.
Finish(p, c, resp) ==
  /\ calls' = [calls EXCEPT ![p] = [c EXCEPT !.pc = "done", !.resp = resp, !.held = 0]]
  /\ borrowed' = borrowed - c.held

\* ------------------------------------------------------------------ queries

\* 1 - (column <=> $1::vector), in tenths, of a row at cosine distance d.
Similarity(d) == 10 - d

RECURSIVE InsertByDistance(_, _)
InsertByDistance(d, s) ==
  IF s = <<>> THEN <<d>>
  ELSE IF d <= Head(s) THEN <<d>> \o s
  ELSE <<Head(s)>> \o InsertByDistance(d, Tail(s))

\* ORDER BY column <=> $1::vector
RECURSIVE OrderByDistance(_)
OrderByDistance(s) ==
  IF s = <<>> THEN <<>> ELSE InsertByDistance(Head(s), OrderByDistance(Tail(s)))

\* LIMIT n
Limit(s, n) == SubSeq(s, 1, IF n < Len(s) THEN n ELSE Len(s))

\* Variant: the WHERE clause compares with >= instead of >.
VectorQuery_AtLeast(tbl, th, lim) ==
  LET kept == SelectSeq(tbl, LAMBDA d : Similarity(d) >= th)
      top  == Limit(OrderByDistance(kept), lim)
  IN [i \in 1..Len(top) |-> Similarity(top[i])]

\* The similarity search statement on a table whose rows lie at the distances
\* tbl from the query vector: the similarities of the rows it returns, in order.
VectorQuery(tbl, th, lim) ==
  LET kept == SelectSeq(tbl, LAMBDA d : Similarity(d) > th)
      top  == Limit(OrderByDistance(kept), lim)
  IN [i \in 1..Len(top) |-> Similarity(top[i])]

\* The metadata statement on a table of n matching rows: the rows it returns,
\* newest first, numbered by age.
MetadataQuery(n, lim) == Limit([i \in 1..n |-> i], lim)

\* The limit the handler passes to the engine: args.limit || 5, args.limit || 10.
EffectiveLimit(c) ==
  OrDefault(c.limit, IF c.tool = "metadata_search" THEN MetaDefaultLimit
                     ELSE DefaultLimit)

\* The threshold the handler passes: args.similarity_threshold || 0.5.
EffectiveThreshold(c) == OrDefault(c.threshold, DefaultThreshold)

\* A piece of statement text: fixed SQL, an interpolated identifier (the table
\* name, a filter key), an interpolated value, or a placeholder $n.
Sql(t) == [kind |-> "sql", v |-> t, n |-> 0]

TableName(t) == [kind |-> "table", v |-> t, n |-> 0]

FilterKey(k) == [kind |-> "key", v |-> k, n |-> 0]

Literal(x) == [kind |-> "value", v |-> "-", n |-> x]

Placeholder(i) == [kind |-> "placeholder", v |-> "$", n |-> i]

\* `%${value}%`
Wildcards(value) == [kind |-> "pattern", v |-> <<"%", value, "%">>, n |-> 0]

\* params.push(limit)
LimitParam(lim) == [kind |-> "number", v |-> <<>>, n |-> lim]

\* whereConditions.join(' AND ') of the conditions of filters[1..i].
RECURSIVE WhereConditions(_, _)
WhereConditions(filters, i) ==
  IF i = 0 THEN <<>>
  ELSE WhereConditions(filters, i - 1)
         \o (IF i > 1 THEN <<Sql("AND")>> ELSE <<>>)
         \o <<FilterKey(filters[i].key), Sql("ILIKE"), Placeholder(i)>>

\* Variant: the limit is written into the statement text instead of bound.
BuildMetadataStatement_InlineLimit(filters, table, lim) ==
  LET k == Len(filters)
  IN [ built  |-> TRUE,
       text   |-> <<Sql("SELECT"), TableName(table)>>
                    \o (IF k > 0 THEN <<Sql("WHERE")>> ELSE <<>>)
                    \o WhereConditions(filters, k)
                    \o <<Sql("ORDER BY created_at DESC"), Sql("LIMIT"), Literal(lim)>>,
       params |-> [i \in 1..k |-> Wildcards(filters[i].value)] ]

\* metadataSearch: the statement text and the parameter list it builds from
\* the entries of filters, in Object.entries order.
BuildMetadataStatement(filters, table, lim) ==
  LET k == Len(filters)
  IN [ built  |-> TRUE,
       text   |-> <<Sql("SELECT"), TableName(table)>>
                    \o (IF k > 0 THEN <<Sql("WHERE")>> ELSE <<>>)
                    \o WhereConditions(filters, k)
                    \o <<Sql("ORDER BY created_at DESC"), Sql("LIMIT"), Placeholder(k + 1)>>,
       params |-> [i \in 1..k |-> Wildcards(filters[i].value)] \o <<LimitParam(lim)>> ]

\* A row of information_schema.columns for the table in the public schema.
Column(name, dataType, udtName) ==
  [name |-> name, dataType |-> dataType, udtName |-> udtName]

\* The columns a table may have.
Columns ==
  { Column("embedding", "USER-DEFINED", "vector"),
    Column("content_embedding", "USER-DEFINED", "vector"),
    Column("title_embedding", "text", "text"),
    Column("location", "USER-DEFINED", "geometry"),
    Column("content", "text", "text") }

\* column_name LIKE '%embedding%', column_name.includes('embedding')
ContainsEmbedding(name) ==
  name \in {"embedding", "content_embedding", "title_embedding"}

\* WHERE ... (column_name LIKE '%embedding%' OR data_type = 'USER-DEFINED')
CandidateColumns(catalog) ==
  { c \in catalog : ContainsEmbedding(c.name) \/ c.dataType = "USER-DEFINED" }

\* ORDER BY CASE WHEN column_name = 'embedding' THEN 1
\*               WHEN column_name = 'content_embedding' THEN 2 ELSE 3 END
ColumnRank(c) ==
  IF c.name = "embedding" THEN 1
  ELSE IF c.name = "content_embedding" THEN 2
  ELSE 3

\* Variant: the catalog query without its ORDER BY.
GetEmbeddingColumnName_Unordered(catalog) ==
  IF CandidateColumns(catalog) = {} THEN {"embedding"}
  ELSE { c.name : c \in CandidateColumns(catalog) }

\* getEmbeddingColumnName: the names the function can return for a table with
\* the given columns.  LIMIT 1 keeps one of the rows of the smallest rank, and
\* no row at all gives the literal 'embedding'.
GetEmbeddingColumnName(catalog) ==
  IF CandidateColumns(catalog) = {} THEN {"embedding"}
  ELSE { c.name : c \in { d \in CandidateColumns(catalog) :
                           \A e \in CandidateColumns(catalog) :
                             ColumnRank(d) <= ColumnRank(e) } }

\* Whether the statement of call c can run with the column it resolved: the
\* search applies <=> to it, the insert assigns a vector to it.
ColumnUsable(c) ==
  \E col \in c.catalog :
    /\ col.name = c.column
    /\ \/ col.udtName = "vector"
       \/ c.tool = "insert_document" /\ col.dataType = "text"

\* vectorDimensions entries.
Unknown == [known |-> FALSE, n |-> 0]

Dimensions(n) == [known |-> TRUE, n |-> n]

\* What the sample query of one embedding column does: a row with the
\* dimension count, no row (or a null count), or an error.
SampleDimensions == {2, 3}

SampleOutcomes(rowCount) ==
  {[kind |-> "no_row", n |-> 0], [kind |-> "throws", n |-> 0]}
    \cup (IF rowCount > 0
          THEN {[kind |-> "row", n |-> d] : d \in SampleDimensions}
          ELSE {})

\* The descriptor getTableSchemas builds for a table with the embedding
\* columns emb.  counted is the answer of the COUNT(*) query, or -1 when that
\* query throws: the outer catch sets rowCount to 0 and the sampling is
\* skipped.  An entry is written when the sample has a dimension count
\* (a number) or throws ('unknown'), and not otherwise.
TableInfo(emb, counted, samples) ==
  [ described        |-> TRUE,
    embeddingColumns |-> emb,
    rowCount         |-> IF counted < 0 THEN 0 ELSE counted,
    vectorDimensions |->
      IF counted < 0 THEN <<>>
      ELSE [ col \in { e \in emb : samples[e].kind # "no_row" } |->
               IF samples[col].kind = "throws" THEN Unknown
               ELSE Dimensions(samples[col].n) ] ]

\* row.column_name.includes('embedding') && row.udt_name === 'vector'
EmbeddingColumns(catalog) ==
  { c.name : c \in { d \in catalog :
      ContainsEmbedding(d.name) /\ d.udtName = "vector" } }

\* getTableSchemas, for one table with the given columns: the descriptors it
\* can produce.
DescribeTable(catalog, counts) ==
  UNION { { TableInfo(EmbeddingColumns(catalog), counted, samples) :
              samples \in [EmbeddingColumns(catalog) -> SampleOutcomes(counted)] } :
          counted \in counts }

\* The tables of the public schema a statistics call looks at.
StatTables == {"document_embeddings", "notes"}

\* The public schema: for each table its columns and the answer of COUNT(*)
\* on it (-1: the count query throws).
Databases(catalogs, counts) ==
  [StatTables -> [columns : catalogs, count : counts]]

\* WHERE table_schema = 'public' AND data_type = 'USER-DEFINED'
\*   AND column_name LIKE '%embedding%': the rows of tablesQuery.
TablesQueryRows(db) ==
  UNION { { [table_name |-> t, column_name |-> c.name] :
              c \in { d \in db[t].columns :
                        d.dataType = "USER-DEFINED" /\ ContainsEmbedding(d.name) } } :
          t \in StatTables }

\* stats.totalDocuments += parseInt(count.rows[0].count), over the entries.
RECURSIVE TotalDocuments(_)
TotalDocuments(entries) ==
  IF entries = {} THEN 0
  ELSE LET e == CHOOSE x \in entries : TRUE
       IN e.documentCount + TotalDocuments(entries \ {e})

\* getDatabaseStats: one entry, and one addition to the total, per row of
\* tablesQuery.
GetDatabaseStats(db) ==
  LET entries == { [ name            |-> r.table_name,
                     embeddingColumn |-> r.column_name,
                     documentCount   |-> db[r.table_name].count ] :
                   r \in TablesQueryRows(db) }
  IN [computed |-> TRUE, tables |-> entries,
      totalDocuments |-> TotalDocuments(entries)]

\* A count query of getDatabaseStats throws: nothing catches it.
CountThrows(db) ==
  \E r \in TablesQueryRows(db) : db[r.table_name].count < 0

\* args.table || 'document_embeddings'
DefaultTable == "document_embeddings"

\* The sets a specification draws a call's inputs from.
Distances == {0, 3, 5, 10}

\* The table the setup script creates.
StandardCatalog ==
  { Column("embedding", "USER-DEFINED", "vector"),
    Column("content", "text", "text") }

FilterKeys == {"author", "category", "lang"}

FilterValues == {"x", "y"}

\* The filter maps of at most n entries, as their entry lists: no key twice.
RECURSIVE FilterMaps(_)
FilterMaps(n) ==
  IF n = 0 THEN {<<>>}
  ELSE LET shorter == FilterMaps(n - 1)
       IN shorter \cup
          { Append(f, [key |-> k, value |-> v]) :
              f \in {g \in shorter : Len(g) = n - 1},
              k \in FilterKeys, v \in FilterValues }

RECURSIVE SeqsUpTo(_, _)
SeqsUpTo(S, n) ==
  IF n = 0 THEN {<<>>}
  ELSE LET shorter == SeqsUpTo(S, n - 1)
       IN shorter \cup {<<x>> \o s : x \in S, s \in {t \in shorter : Len(t) = n - 1}}

WideInputs ==
  [ limits     |-> {Absent} \cup {Given(n) : n \in {-1, 0, 1, 2, 51, 101}},
    thresholds |-> {Absent} \cup {Given(n) : n \in {-5, 0, 5, 7, 15}},
    filters    |-> {<<>>},
    catalogs   |-> {StandardCatalog},
    counts     |-> {0},
    tables     |-> SeqsUpTo(Distances, MaxRows) ]

NarrowInputs ==
  [ limits     |-> {Absent, Given(1)},
    thresholds |-> {Absent},
    filters    |-> {<<>>},
    catalogs   |-> {StandardCatalog},
    counts     |-> {0},
    tables     |-> {<<>>, <<3>>} ]

\* Every filter map and every table layout, few limits.
EngineInputs ==
  [ limits     |-> {Absent, Given(2)},
    thresholds |-> {Absent},
    filters    |-> FilterMaps(MaxFilters),
    catalogs   |-> SUBSET Columns,
    counts     |-> -1..MaxRows,
    tables     |-> {<<>>, <<3>>} ]

\* --------------------------------------------------------- the call handler

\* A request arrives in slot p: the handler runs its switch and, for an engine
\* operation, ensurePoolConnection, up to the first await that has to wait.
CallTool(p, D) ==
  /\ phase = "serving"
  /\ calls[p].pc = "idle"
  /\ \E name \in ToolNames, hasArgs \in BOOLEAN,
        lim \in D.limits, th \in D.thresholds, fs \in D.filters :
       /\ lim.has => hasArgs /\ name \in {"vector_search", "metadata_search"}
       /\ th.has => hasArgs /\ name = "vector_search"
       /\ fs # <<>> => hasArgs /\ name = "metadata_search"
       /\ LET o == SyncOutcome(name, hasArgs)
              c == [IdleCall EXCEPT !.tool = name, !.hasArgs = hasArgs,
                                    !.limit = lim, !.threshold = th,
                                    !.filters = fs]
          IN IF o = "engine"
             THEN /\ EnsurePoolConnection
                  /\ IF PoolMissing
                     THEN Finish(p, c, Failure(Err("Error", "-", "connection_not_available")))
                     ELSE /\ calls' = [calls EXCEPT ![p] = [c EXCEPT !.pc = "connect"]]
                          /\ UNCHANGED borrowed
             ELSE /\ UNCHANGED connVars
                  /\ IF o = "status"
                     THEN Finish(p, c, Result(<<>>, StatusReport))
                     ELSE Finish(p, c, Failure(SyncError(o)))
  /\ UNCHANGED <<env, phase, embeddingProvider, hfClient, dbUp, listing>>

\* await currentPool.connect() resolves: the pool hands a client out.  With all
\* PoolMax clients checked out the promise stays pending.
AcquireClient(p) ==
  /\ calls[p].pc \in {"connect", "col_connect"}
  /\ dbUp
  /\ borrowed < PoolMax
  /\ borrowed' = borrowed + 1
  /\ calls' = [calls EXCEPT ![p] =
       [@ EXCEPT !.held = @ + 1,
                 !.pc = IF calls[p].pc = "col_connect" THEN "col_query"
                        ELSE IF calls[p].tool \in EmbeddingTools THEN "embed"
                        ELSE "query"]]
  /\ UNCHANGED <<env, phase, embeddingProvider, hfClient, connVars, dbUp, listing>>

\* await currentPool.connect() rejects: the pool opens a new connection and the
\* database does not answer.  With all PoolMax clients checked out the pool
\* opens nothing and the promise stays pending.
ConnectFails(p) ==
  /\ calls[p].pc \in {"connect", "col_connect"}
  /\ ~dbUp
  /\ borrowed < PoolMax
  /\ Finish(p, calls[p], Failure(Err("Error", "-", "connect_error")))
  /\ UNCHANGED <<env, phase, embeddingProvider, hfClient, connVars, dbUp, listing>>

\* Whether the configured backend can answer at all: the Azure request needs
\* the endpoint and the key, and an unknown provider throws in the switch.
BackendUsable ==
  \/ embeddingProvider = "huggingface" /\ hfClient = "client"
  \/ /\ embeddingProvider = "azure"
     /\ Truthy(env.AZURE_OPENAI_API_KEY)
     /\ Truthy(env.AZURE_OPENAI_ENDPOINT)

\* await generateEmbedding(text), awaited inside vectorSearch and insertDocument
\* with the client already held.
GenerateEmbedding(p) ==
  /\ calls[p].pc = "embed"
  /\ \E ok \in BOOLEAN :
       IF ok /\ BackendUsable
       THEN /\ calls' = [calls EXCEPT ![p].pc = "col_connect"]
            /\ UNCHANGED borrowed
       ELSE Finish(p, calls[p], Failure(Err("Error", "-", "embedding_failed")))
  /\ UNCHANGED <<env, phase, embeddingProvider, hfClient, connVars, dbUp, listing>>

\* getEmbeddingColumnName's catalog query on its own client, released in its
\* finally block whether the query answers or throws.
ColumnQuery(p, D) ==
  /\ calls[p].pc = "col_query"
  /\ \E ok \in BOOLEAN, catalog \in D.catalogs :
       IF ok /\ dbUp
       THEN /\ \E name \in GetEmbeddingColumnName(catalog) :
                 calls' = [calls EXCEPT ![p] =
                   [@ EXCEPT !.held = @ - 1, !.pc = "query",
                             !.catalog = catalog, !.column = name]]
            /\ borrowed' = borrowed - 1
       ELSE Finish(p, calls[p], Failure(Err("Error", "-", "sql_error")))
  /\ UNCHANGED <<env, phase, embeddingProvider, hfClient, connVars, dbUp, listing>>

\* The rows a search statement returns for the call c, or the mark that
\* PostgreSQL rejects it (a negative LIMIT).
Rejected == <<-1>>

SearchRows(c, tbl) ==
  IF EffectiveLimit(c) < 0 THEN Rejected
  ELSE IF c.tool = "vector_search"
       THEN VectorQuery(tbl, EffectiveThreshold(c), EffectiveLimit(c))
       ELSE MetadataQuery(Len(tbl), EffectiveLimit(c))

\* The parameters bound into the statement of call c.
BoundParams(c) ==
  IF c.tool = "vector_search"
  THEN [has |-> TRUE, limit |-> EffectiveLimit(c), threshold |-> EffectiveThreshold(c)]
  ELSE IF c.tool = "metadata_search"
  THEN [has |-> TRUE, limit |-> EffectiveLimit(c), threshold |-> 0]
  ELSE NoBound

\* The statement text and parameter list call c builds before it queries.
Statement(c) ==
  IF c.tool = "metadata_search"
  THEN BuildMetadataStatement(c.filters, DefaultTable, EffectiveLimit(c))
  ELSE NoStatement

\* The schemas a statistics call c can run against.
StatDatabases(c, D) ==
  IF c.tool = "get_database_stats"
  THEN Databases(D.catalogs, D.counts)
  ELSE {<<>>}

\* The table descriptors call c can come to.
TableInfos(c, D) ==
  IF c.tool = "get_table_schemas"
  THEN UNION { DescribeTable(catalog, D.counts) : catalog \in D.catalogs }
  ELSE {NoSchema}

\* The operation's statement on its own client, then the finally block and the
\* rendering of the answer.  Rendering reads result.content of every row.
Query(p, D) ==
  /\ calls[p].pc = "query"
  /\ LET c == [calls[p] EXCEPT !.bound = BoundParams(calls[p]),
                               !.stmt = Statement(calls[p])]
     IN \E tbl \in D.tables, ok \in BOOLEAN, contentOk \in BOOLEAN,
           info \in TableInfos(calls[p], D), db \in StatDatabases(calls[p], D) :
          LET rows == IF c.tool \in {"vector_search", "metadata_search"}
                      THEN SearchRows(c, tbl) ELSE <<>>
          IN IF ~ok \/ ~dbUp \/ rows = Rejected
                \/ (c.tool \in EmbeddingTools /\ ~ColumnUsable(c))
                \/ (c.tool = "get_database_stats" /\ CountThrows(db))
             THEN Finish(p, c, Failure(Err("Error", "-", "sql_error")))
             ELSE IF rows # <<>> /\ ~contentOk
             THEN Finish(p, c, Failure(Err("TypeError", "-", "render_error")))
             ELSE Finish(p, [c EXCEPT !.schema = info, !.database = db,
                                      !.stats = IF c.tool = "get_database_stats"
                                                THEN GetDatabaseStats(db)
                                                ELSE NoStats],
                         Result(rows, NoReport))
  /\ UNCHANGED <<env, phase, embeddingProvider, hfClient, connVars, dbUp, listing>>

\* The answer has been sent: the slot is free for the next request.
Return(p) ==
  /\ calls[p].pc = "done"
  /\ calls' = [calls EXCEPT ![p] = IdleCall]
  /\ UNCHANGED <<env, phase, embeddingProvider, hfClient, connVars, borrowed, dbUp, listing>>

\* ListToolsRequestSchema handler.
ListToolsRequest ==
  /\ phase = "serving"
  /\ listing' = ListTools
  /\ UNCHANGED <<env, phase, embeddingProvider, hfClient, connVars, borrowed, dbUp, calls>>

\* PostgreSQL goes away or comes back.
DatabaseChange ==
  /\ phase \in {"main", "serving"}
  /\ dbUp' = ~dbUp
  /\ UNCHANGED <<env, phase, embeddingProvider, hfClient, connVars, borrowed, listing, calls>>

\* ------------------------------------------------------------ specifications

InitState(E) ==
  /\ env \in E
  /\ phase = "load"
  /\ embeddingProvider = "unresolved"
  /\ hfClient = "null"
  /\ pool = "null"
  /\ dbConnectionStatus = "not_attempted"
  /\ initAttempts = 0
  /\ borrowed = 0
  /\ leaked = 0
  /\ dbUp \in BOOLEAN
  /\ listing = {}
  /\ calls = [p \in Procs |-> IdleCall]

\* The configurations of the concurrent specification: a database URL, and
\* Azure credentials or no provider at all.
ConcurrentEnvs ==
  { e \in ServingEnvs :
      /\ e.EMBEDDING_PROVIDER = Undefined
      /\ e.HUGGINGFACE_API_KEY = Undefined
      /\ e.DATABASE_URL = "set"
      /\ ~e.argvHealth }

Init == InitState(ConcurrentEnvs)

\* Calls in flight in every slot.
Next ==
  \/ LoadModule
  \/ Main
  \/ ListToolsRequest
  \/ DatabaseChange
  \/ \E p \in Procs : CallTool(p, NarrowInputs)
  \/ \E p \in Procs : AcquireClient(p)
  \/ \E p \in Procs : ConnectFails(p)
  \/ \E p \in Procs : GenerateEmbedding(p)
  \/ \E p \in Procs : ColumnQuery(p, NarrowInputs)
  \/ \E p \in Procs : Query(p, NarrowInputs)
  \/ \E p \in Procs : Return(p)

Spec == Init /\ [][Next]_vars

InitSeq == InitState(ServingEnvs)

\* One call at a time, in slot 1, with inputs from the wide sets.
NextSeq ==
  \/ LoadModule
  \/ Main
  \/ ListToolsRequest
  \/ DatabaseChange
  \/ CallTool(1, WideInputs)
  \/ AcquireClient(1)
  \/ ConnectFails(1)
  \/ GenerateEmbedding(1)
  \/ ColumnQuery(1, WideInputs)
  \/ Query(1, WideInputs)
  \/ Return(1)

SpecSeq == InitSeq /\ [][NextSeq]_vars

InitEngine == InitState(ConcurrentEnvs)

\* One call at a time, in slot 1, against every table layout and with every
\* filter map.
NextEngine ==
  \/ LoadModule
  \/ Main
  \/ DatabaseChange
  \/ CallTool(1, EngineInputs)
  \/ AcquireClient(1)
  \/ ConnectFails(1)
  \/ GenerateEmbedding(1)
  \/ ColumnQuery(1, EngineInputs)
  \/ Query(1, EngineInputs)
  \/ Return(1)

SpecEngine == InitEngine /\ [][NextEngine]_vars

InitStartup == InitState(AllEnvs)

\* Start-up alone, from every configuration.
NextStartup ==
  \/ LoadModule
  \/ Main
  \/ ListToolsRequest
  \/ DatabaseChange

SpecStartup == InitStartup /\ [][NextStartup]_vars

\* -------------------------------------------------------------------- claims

Settled(p) == calls[p].pc \in {"idle", "done"}

Done(p) == calls[p].pc = "done"

Failed(p) == Done(p) /\ calls[p].resp.kind = "error"

Succeeded(p) == Done(p) /\ calls[p].resp.kind = "result"

Degraded ==
  /\ phase = "serving"
  /\ dbConnectionStatus \in {"failed", "no_url", "skipped_health_check"}

\* C1: an engine operation that has returned or thrown holds no client, and
\* with no operation in flight no client of the pool is checked out; the
\* checked-out clients are always exactly those the operations in flight hold.
C1_ReleasedOnEveryExit ==
  /\ \A p \in Procs : Settled(p) => calls[p].held = 0
  /\ (\A p \in Procs : Settled(p)) => borrowed = 0
  /\ \A p \in Procs : calls[p].held \in 0..2
  /\ borrowed >= 0

\* C1 witness: an operation failed in its embedding call, which it makes with a
\* client held, and nothing is in flight.
C1_Witness ==
  /\ \E p \in Procs : Failed(p) /\ calls[p].resp.cause = "embedding_failed"
  /\ \E p \in Procs : Succeeded(p) /\ calls[p].tool = "get_database_stats"
  /\ \A p \in Procs : Settled(p)

\* C2 as stated: in a status other than connected every database-dependent
\* call fails with the connection-not-available error, without a client and
\* without a statement, and status_check answers with a report.
C2_AlwaysConnectionNotAvailable ==
  Degraded =>
    \A p \in Procs :
      /\ Done(p) /\ calls[p].tool \in DatabaseTools =>
           /\ calls[p].resp.kind = "error"
           /\ calls[p].resp.cause = "connection_not_available"
           /\ calls[p].held = 0
           /\ ~calls[p].bound.has
      /\ Done(p) /\ calls[p].tool = "status_check" =>
           calls[p].resp.kind = "result"

\* The error a database-dependent call ends with while no pool exists.
DegradedCause(c) ==
  IF c.tool \in EmbeddingTools /\ embeddingProvider = "none" THEN "provider_disabled"
  ELSE IF c.tool \in EmbeddingTools \cup {"metadata_search"} /\ ~c.hasArgs
       THEN "type_error"
       ELSE "connection_not_available"

\* C2, amended: in a status other than connected no call ever waits for a
\* client or runs a statement and none is checked out; a database-dependent
\* call fails, with the connection-not-available error unless the handler
\* failed before reaching the engine (provider none, or no argument bag);
\* status_check returns a report of the current status, and its step leaves
\* the status, the pool and the checked-out clients unchanged.
C2_FailsBeforeAnyQuery ==
  /\ [](Degraded =>
          /\ borrowed = 0
          /\ pool = "null"
          /\ \A p \in Procs :
               /\ Settled(p)
               /\ calls[p].held = 0
               /\ ~calls[p].bound.has
               /\ Done(p) /\ calls[p].tool \in DatabaseTools =>
                    /\ calls[p].resp.kind = "error"
                    /\ calls[p].resp.cause = DegradedCause(calls[p])
               /\ Done(p) /\ calls[p].tool = "status_check" =>
                    /\ calls[p].resp.kind = "result"
                    /\ calls[p].resp.report.status = dbConnectionStatus)
  /\ [][\A p \in Procs :
          calls[p].pc = "idle" /\ calls'[p].pc = "done"
            /\ calls'[p].tool = "status_check"
          => UNCHANGED <<connVars, borrowed>>]_vars

\* C2 witness: with the connection failed, a metadata_search that passed its
\* arguments has ended with the connection-not-available error.
C2_Witness ==
  /\ Degraded
  /\ \E p \in Procs :
       /\ Failed(p)
       /\ calls[p].tool = "metadata_search"
       /\ calls[p].hasArgs
       /\ calls[p].resp.cause = "connection_not_available"

\* C3 as stated: with provider none the listing holds neither embedding tool,
\* and a call of one ends as a MethodNotFound error with no client borrowed
\* and no statement run.
C3_MethodNotFoundReachesCaller ==
  phase = "serving" /\ embeddingProvider = "none" =>
    /\ listing \cap EmbeddingTools = {}
    /\ \A p \in Procs :
         Done(p) /\ calls[p].tool \in EmbeddingTools =>
           /\ calls[p].resp.kind = "error"
           /\ calls[p].resp.code = "MethodNotFound"
           /\ calls[p].held = 0
           /\ ~calls[p].bound.has

\* C4: whatever the tool name and the argument bag, a call that fails leaves
\* the handler as an McpError with the uniform code and a message; nothing of
\* another class leaves it.
C4_OnlyUniformErrorEscapes ==
  \A p \in Procs :
    Done(p) =>
      /\ calls[p].resp.kind \in {"result", "error"}
      /\ calls[p].resp.kind = "error" =>
           /\ calls[p].resp.class = "McpError"
           /\ calls[p].resp.code = "InternalError"
           /\ calls[p].resp.cause # "-"

\* C4 witness: a runtime error of argument access (no argument bag) has left
\* the handler.
C4_Witness ==
  \E p \in Procs :
    /\ Failed(p)
    /\ ~calls[p].hasArgs
    /\ calls[p].resp.cause = "type_error"

\* C5: once the status is not not_attempted, no step changes it.
C5_StatusNeverChangesAgain ==
  [][dbConnectionStatus # "not_attempted"
       => dbConnectionStatus' = dbConnectionStatus]_vars

\* C5 witness: the status is failed although the database answers again and a
\* database-dependent call has gone through ensurePoolConnection since.
C5_Witness ==
  /\ dbConnectionStatus = "failed"
  /\ dbUp
  /\ \E p \in Procs :
       /\ Failed(p)
       /\ calls[p].tool = "get_table_schemas"

\* C6 as stated: a dependent operation ends with the connection-not-available
\* error only after it has made one more connection attempt.
C6_ReattemptsOnce ==
  \A p \in Procs :
    Failed(p) /\ calls[p].resp.cause = "connection_not_available"
              /\ dbConnectionStatus = "failed"
      => initAttempts = 2

\* C6, amended: after the connection attempt of start-up has failed, no
\* dependent operation attempts it again: there has been one attempt, there is
\* no pool, and every call that gets to the engine ends with the
\* connection-not-available error, whether or not the database answers now.
C6_NoReattempt ==
  /\ phase = "serving" => initAttempts <= 1
  /\ phase = "serving" /\ dbConnectionStatus = "failed" =>
       /\ initAttempts = 1
       /\ pool = "null"
       /\ \A p \in Procs :
            /\ Settled(p)
            /\ Done(p) /\ SyncOutcome(calls[p].tool, calls[p].hasArgs) = "engine"
                 => calls[p].resp.cause = "connection_not_available"

\* C6 witness: the attempt failed, the database answers again, and a
\* get_database_stats call has still ended with connection-not-available.
C6_Witness ==
  /\ dbConnectionStatus = "failed"
  /\ dbUp
  /\ initAttempts = 1
  /\ \E p \in Procs :
       /\ Failed(p)
       /\ calls[p].tool = "get_database_stats"
       /\ calls[p].resp.cause = "connection_not_available"

\* A credential is present when its variable is set to a non-empty value.
Present(v) == v \notin {Undefined, ""}

\* C7: the resolved provider is the configured one when one other than auto is
\* configured; else azure with both Azure credentials; else huggingface with
\* the Hugging Face key; else none.
C7_ProviderResolution ==
  embeddingProvider # "unresolved" =>
    embeddingProvider =
      IF Present(env.EMBEDDING_PROVIDER) /\ env.EMBEDDING_PROVIDER # "auto"
      THEN env.EMBEDDING_PROVIDER
      ELSE IF Present(env.AZURE_OPENAI_API_KEY) /\ Present(env.AZURE_OPENAI_ENDPOINT)
      THEN "azure"
      ELSE IF Present(env.HUGGINGFACE_API_KEY) THEN "huggingface"
      ELSE "none"

\* C7 witness: nothing explicit is configured, both sets of credentials are
\* present, and azure was resolved.
C7_Witness ==
  /\ phase = "serving"
  /\ ~Present(env.EMBEDDING_PROVIDER)
  /\ Present(env.AZURE_OPENAI_API_KEY) /\ Present(env.AZURE_OPENAI_ENDPOINT)
  /\ Present(env.HUGGINGFACE_API_KEY)
  /\ embeddingProvider = "azure"

\* C8 as stated: the process serves tools only with the credentials of its
\* resolved provider present.
C8_NoServingWithoutCredentials ==
  phase = "serving" =>
    /\ embeddingProvider = "huggingface" => Present(env.HUGGINGFACE_API_KEY)
    /\ embeddingProvider = "azure" =>
         Present(env.AZURE_OPENAI_API_KEY) /\ Present(env.AZURE_OPENAI_ENDPOINT)

\* C9 as stated: the values bound into an executed search statement lie in
\* the ranges [1, 50] and [0, 1] for vector_search and [1, 100] for
\* metadata_search.
C9_BoundValuesClamped ==
  \A p \in Procs :
    calls[p].bound.has =>
      /\ calls[p].tool = "vector_search" =>
           /\ calls[p].bound.limit \in 1..VectorLimitMax
           /\ calls[p].bound.threshold \in 0..10
      /\ calls[p].tool = "metadata_search" =>
           calls[p].bound.limit \in 1..MetaLimitMax

NonIncreasing(rows) ==
  \A i \in 1..Len(rows) : \A j \in 1..Len(rows) : i < j => rows[i] >= rows[j]

\* C10 as stated: a vector_search that succeeds returns at most as many rows
\* as the limit the caller gave, each more similar than the threshold the
\* caller gave, in order of non-increasing similarity.
C10_AtMostTheCallersLimit ==
  \A p \in Procs :
    Succeeded(p) /\ calls[p].tool = "vector_search" =>
      LET rows == calls[p].resp.rows
      IN /\ calls[p].limit.has => Len(rows) <= calls[p].limit.val
         /\ calls[p].threshold.has =>
              \A i \in 1..Len(rows) : rows[i] > calls[p].threshold.val
         /\ NonIncreasing(rows)

\* C10, amended: a vector_search that succeeds returns at most as many rows as
\* the limit passed to the engine (the caller's limit, or 5 when the caller
\* gave none or gave 0), each more similar than the threshold passed to the
\* engine and than the threshold the caller gave, in order of non-increasing
\* similarity.
C10_AtMostThePassedLimit ==
  \A p \in Procs :
    Succeeded(p) /\ calls[p].tool = "vector_search" =>
      LET rows == calls[p].resp.rows
          lim  == IF calls[p].limit.has /\ calls[p].limit.val # 0
                  THEN calls[p].limit.val ELSE DefaultLimit
          th   == IF calls[p].threshold.has /\ calls[p].threshold.val # 0
                  THEN calls[p].threshold.val ELSE DefaultThreshold
      IN /\ Len(rows) <= lim
         /\ \A i \in 1..Len(rows) : rows[i] > th
         /\ calls[p].threshold.has =>
              \A i \in 1..Len(rows) : rows[i] > calls[p].threshold.val
         /\ NonIncreasing(rows)

\* C10 witness: a vector_search with a limit and a threshold of the caller
\* has returned as many rows as the limit allows.
C10_Witness ==
  \E p \in Procs :
    /\ Succeeded(p)
    /\ calls[p].tool = "vector_search"
    /\ calls[p].limit.has /\ calls[p].threshold.has
    /\ calls[p].resp.rows # <<>>
    /\ Len(calls[p].resp.rows) = calls[p].limit.val


\* ---------------------------------------------------------------------------
\* Statement construction, column resolution, the tool surface and the pool.

IsKey(t) == t.kind = "key"

IsPlaceholder(t) == t.kind = "placeholder"

IsAnd(t) == t = Sql("AND")

IsWhere(t) == t = Sql("WHERE")

\* The statement a metadata search has built matches the filter map fs and
\* the bound limit lim.
WellFormedStatement(s, fs, lim) ==
  LET k == Len(fs)
  IN /\ SelectSeq(s.text, IsKey) = [i \in 1..k |-> FilterKey(fs[i].key)]
     /\ SelectSeq(s.text, IsPlaceholder) = [i \in 1..(k + 1) |-> Placeholder(i)]
     /\ Len(SelectSeq(s.text, IsAnd)) = (IF k > 0 THEN k - 1 ELSE 0)
     /\ Len(SelectSeq(s.text, IsWhere)) = (IF k > 0 THEN 1 ELSE 0)
     /\ \A j \in 1..Len(s.text) :
          IsKey(s.text[j]) =>
            /\ j + 2 <= Len(s.text)
            /\ IsPlaceholder(s.text[j + 2])
            /\ fs[s.text[j + 2].n].key = s.text[j].v
     /\ s.text[Len(s.text)] = Placeholder(k + 1)
     /\ Len(s.params) = k + 1
     /\ \A i \in 1..k : s.params[i] = Wildcards(fs[i].value)
     /\ s.params[k + 1] = LimitParam(lim)
     /\ \A j \in 1..Len(s.text) : s.text[j].kind \in {"sql", "table", "key", "placeholder"}

\* C11: for a filter map of k entries metadataSearch builds exactly k
\* AND-joined predicates (no WHERE clause when k = 0); the i-th predicate names
\* the i-th key and the placeholder $i, whose bound value is the i-th filter
\* value between % wildcards; the limit is bound as $(k+1); the statement text
\* holds fixed SQL, the table name, filter keys and placeholders only, never a
\* filter value or the limit.
C11_FiltersAndLimitAreBound ==
  \A p \in Procs :
    calls[p].tool = "metadata_search" /\ calls[p].stmt.built =>
      WellFormedStatement(calls[p].stmt, calls[p].filters, calls[p].bound.limit)

\* A metadata search with a full filter map has run its statement and answered.
C11_Witness ==
  \E p \in Procs :
    /\ Succeeded(p)
    /\ calls[p].tool = "metadata_search"
    /\ Len(calls[p].filters) = MaxFilters
    /\ calls[p].stmt.built
    /\ calls[p].limit.has


\* C12: for every set of columns the table has, getEmbeddingColumnName returns
\* 'embedding' when a candidate of that name exists, otherwise
\* 'content_embedding' when that exists, otherwise one of the remaining
\* candidates, and the literal 'embedding' when there is no candidate.
C12_ColumnPreference ==
  \A p \in Procs :
    calls[p].column # "-" =>
      LET names == { c.name : c \in CandidateColumns(calls[p].catalog) }
      IN /\ "embedding" \in names => calls[p].column = "embedding"
         /\ "embedding" \notin names /\ "content_embedding" \in names =>
              calls[p].column = "content_embedding"
         /\ names # {} => calls[p].column \in names
         /\ names = {} => calls[p].column = "embedding"

\* A search on a table without 'embedding' but with 'content_embedding' and
\* two lower-ranked candidates has resolved its column and answered.
C12_Witness ==
  \E p \in Procs :
    /\ Succeeded(p)
    /\ calls[p].tool = "vector_search"
    /\ calls[p].column = "content_embedding"
    /\ Cardinality(CandidateColumns(calls[p].catalog)) = 3


\* C13: a get_table_schemas call never fails because a sample failed, and in
\* the descriptor it returns every column of embeddingColumns has a
\* vectorDimensions entry, which is a positive integer or 'unknown' (the
\* latter when the sample throws or the table is empty).
C13_EveryEmbeddingColumnHasDimensions ==
  \A p \in Procs :
    calls[p].schema.described =>
      /\ Succeeded(p)
      /\ \A col \in calls[p].schema.embeddingColumns :
           /\ col \in DOMAIN calls[p].schema.vectorDimensions
           /\ \/ calls[p].schema.vectorDimensions[col] = Unknown
              \/ /\ calls[p].schema.vectorDimensions[col].known
                 /\ calls[p].schema.vectorDimensions[col].n > 0


\* C14: in every combination of provider and connection status the tool names
\* of a status report are the names the tool listing returns in the same
\* state, and the report's limitations are non-empty whenever the provider is
\* none or the status is not connected.
C14_ReportListsTheListedTools ==
  \A p \in Procs :
    Succeeded(p) /\ calls[p].tool = "status_check" =>
      /\ calls[p].resp.report.availableTools = ListTools
      /\ (embeddingProvider = "none" \/ dbConnectionStatus # "connected") =>
           calls[p].resp.report.limitations # {}

\* C15: an engine operation holds at most one pooled connection at every
\* moment: it never borrows a second one while it holds one.
C15_OneConnectionPerOperation ==
  \A p \in Procs : calls[p].held <= 1

\* C16: in vector_search and insert_document the embedding is computed before
\* the connection is borrowed: no connection is held while the embedding call
\* is in flight, and an embedding failure happens with nothing borrowed.
C16_EmbeddingBeforeConnection ==
  \A p \in Procs : calls[p].pc = "embed" => calls[p].held = 0


\* C17: over the whole life of the process, start-up and every interleaving
\* of concurrent first requests included, the connection initialization (a new
\* pool and its probe) is started at most once.
C17_InitializedAtMostOnce == initAttempts <= 1

\* Two database-dependent calls are in flight together after the one
\* initialization of start-up, both past ensurePoolConnection.
C17_Witness ==
  /\ initAttempts = 1
  /\ \E p, q \in Procs :
       /\ p # q
       /\ calls[p].pc \notin {"idle", "done"}
       /\ calls[q].pc \notin {"idle", "done"}


\* C18: each of connected, failed, no_url and skipped_health_check is reached
\* from not_attempted in a process that goes on to serve tool calls.  For
\* no_url that is the process started without a connection string outside the
\* health-check mode: it does not exit, and it serves with the status no_url;
\* skipped_health_check is entered in the health-check mode only.
C18_ServesWithoutConnectionString ==
  /\ ~Truthy(ConnectionString) /\ ~IsHealthCheck => phase # "exited"
  /\ ~Truthy(ConnectionString) /\ ~IsHealthCheck /\ phase = "serving" =>
       dbConnectionStatus = "no_url"
  /\ dbConnectionStatus = "skipped_health_check" => IsHealthCheck


\* Call p holds a pooled connection and waits for the pool to hand out one
\* more.
WaitsForFurtherConnection(p) ==
  calls[p].held > 0 /\ calls[p].pc \in {"connect", "col_connect"}

\* C19: with the pool bounded at PoolMax, concurrent vector_search and
\* insert_document calls never come to a state where every pooled connection
\* is held by an operation that is itself waiting to borrow a further one, so
\* all of them can complete.
C19_NoPoolExhaustionDeadlock ==
  ~ /\ borrowed = PoolMax
    /\ \A p \in Procs : calls[p].held > 0 => WaitsForFurtherConnection(p)

\* C20: a limit or similarity threshold the caller supplies inside the tool's
\* declared range, the declared minimum included, is the value bound into the
\* statement; the default is bound only when the argument is absent.
C20_SuppliedValueIsBound ==
  \A p \in Procs :
    calls[p].bound.has =>
      /\ calls[p].tool = "vector_search" =>
           /\ calls[p].limit.has /\ calls[p].limit.val \in 1..VectorLimitMax =>
                calls[p].bound.limit = calls[p].limit.val
           /\ calls[p].threshold.has /\ calls[p].threshold.val \in 0..10 =>
                calls[p].bound.threshold = calls[p].threshold.val
           /\ ~calls[p].limit.has => calls[p].bound.limit = DefaultLimit
           /\ ~calls[p].threshold.has => calls[p].bound.threshold = DefaultThreshold
      /\ calls[p].tool = "metadata_search" =>
           /\ calls[p].limit.has /\ calls[p].limit.val \in 1..MetaLimitMax =>
                calls[p].bound.limit = calls[p].limit.val
           /\ ~calls[p].limit.has => calls[p].bound.limit = MetaDefaultLimit


\* The tables of db that own at least one embedding column.
OwningTables(db) ==
  { t \in StatTables :
      \E c \in db[t].columns :
        c.dataType = "USER-DEFINED" /\ ContainsEmbedding(c.name) }

RECURSIVE SumOfCounts(_, _)
SumOfCounts(db, tables) ==
  IF tables = {} THEN 0
  ELSE LET t == CHOOSE x \in tables : TRUE
       IN db[t].count + SumOfCounts(db, tables \ {t})

\* C21: in the result of getDatabaseStats, totalDocuments is the sum of the
\* row counts of the distinct tables that own at least one embedding column,
\* and each such table has exactly one entry in tables, also when it has
\* several embedding columns.
C21_EachTableCountedOnce ==
  \A p \in Procs :
    calls[p].stats.computed =>
      /\ calls[p].stats.totalDocuments =
           SumOfCounts(calls[p].database, OwningTables(calls[p].database))
      /\ \A t \in OwningTables(calls[p].database) :
           Cardinality({ e \in calls[p].stats.tables : e.name = t }) = 1

====
